---------------------------- MODULE Spec2Model ----------------------------
(***************************************************************************)
(* State-machine model of ai-market-coach: the seeded quiz/flashcard       *)
(* generator (app/core/learning.py), the seed derivation and the /analyze  *)
(* handlers (app/api/routes.py, app/api/main.py).                          *)
(***************************************************************************)
EXTENDS Integers, Sequences, FiniteSets, TLC

VARIABLES
    call,       \* arguments of the last generate_quiz_and_flashcards call
    made,       \* the (options, correct_option_index) given to _make_question, in order
    bank,       \* the question bank before rng.shuffle(bank)
    shuffled,   \* the question bank after rng.shuffle(bank)
    deck,       \* the returned {"quiz": ..., "flashcards": ...}
    prevDeck,   \* the deck returned by the previous call with the same arguments
    calls,      \* number of calls made with the current arguments
    argsAfter,  \* the caller's analysis record as the last call left it
    seedCalls,  \* the stable_seed calls made: arguments, key hashed, seed returned
    apiCalls,   \* the /analyze requests served: handler, request, upstream data, response
    metricsCall, \* the last compute_price_metrics call: the price table and the outcome
    tickerCall, \* the last analyze_ticker call: arguments, provider data and the outcome
    session_state, \* st.session_state of one browser session: key -> value
    widgets,    \* the sidebar widgets' values: ticker, period, interval, user_level
    lastRun,    \* the last run of the Streamlit script: run_button and what the API did
    runs,       \* number of runs of the script in the session
    frames,     \* the calls of generate_quiz_and_flashcards in progress, per caller
    generators  \* the random.Random objects alive: object -> state

quizVars == <<call, made, bank, shuffled, deck, prevDeck, calls, argsAfter>>

analysisVars == <<metricsCall, tickerCall>>

uiVars == <<session_state, widgets, lastRun, runs>>

concVars == <<frames, generators>>

vars == <<call, made, bank, shuffled, deck, prevDeck, calls, argsAfter, seedCalls, apiCalls,
          metricsCall, tickerCall, session_state, widgets, lastRun, runs,
          frames, generators>>

-----------------------------------------------------------------------------
(* Python values.  Every value is tagged so that None, strings and numbers *)
(* can sit in the same mapping.                                            *)

None == [t |-> "none"]
Str(s) == [t |-> "str", s |-> s]
Num(n) == [t |-> "num", n |-> n]

\* float("nan")
NaN == [t |-> "nan"]

\* The test `x is not None` in the place of truthiness.
TruthyNotNone(x) == x.t # "none"

\* Python truthiness of a tagged value (None, "" and 0 are falsy; nan is not).
Truthy(x) ==
    CASE x.t = "none" -> FALSE
      [] x.t = "str" -> x.s # ""
      [] x.t = "num" -> x.n # 0
      [] x.t = "nan" -> TRUE

\* The fallback taken whatever the first operand is.
OrLast(a, b) == b

\* a or b
Or(a, b) == IF Truthy(a) THEN a ELSE b

Max(a, b) == IF a >= b THEN a ELSE b
Min(a, b) == IF a <= b THEN a ELSE b

Range(s) == {s[i] : i \in 1..Len(s)}

-----------------------------------------------------------------------------
(* random.Random.  The Mersenne Twister is abstracted as a 16-bit linear   *)
(* congruential generator: what the callers rely on is that the stream is  *)
(* a function of the seed, and that an unseeded generator starts from OS   *)
(* entropy.  A Python int is held as two 16-bit limbs, hi * 2^16 + lo.     *)

PyInt(hi, lo) == [t |-> "int", hi |-> hi, lo |-> lo]

\* The generator that ignores its seed and always starts from OS entropy.
RandomUnseeded(seed, entropy) == entropy % 65536

\* random.Random(seed): seeded from `seed`, or from OS entropy when seed is None.
Random(seed, entropy) ==
    IF seed.t = "none"
    THEN entropy % 65536
    ELSE (seed.hi * 251 + seed.lo * 3 + 1) % 65536

\* One step of the generator.
Advance(rng) == (rng * 25173 + 13849) % 65536

\* rng._randbelow(n), drawn from the state reached by one step.
RandBelow(rng, n) == (Advance(rng) \div 256) % n

Swap(x, i, j) == [x EXCEPT ![i] = x[j], ![j] = x[i]]

\* for i in reversed(range(1, len(x))): j = randbelow(i + 1); x[i], x[j] = x[j], x[i]
\* (positions are 1-based here: i runs from Len(x) down to 2).
RECURSIVE ShuffleFrom(_, _, _)
ShuffleFrom(x, i, rng) ==
    IF i < 2
    THEN [x |-> x, rng |-> rng]
    ELSE ShuffleFrom(Swap(x, i, RandBelow(rng, i) + 1), i - 1, Advance(rng))

\* rng.shuffle(x): the shuffled list and the generator after it.
Shuffle(x, rng) == ShuffleFrom(x, Len(x), rng)

-----------------------------------------------------------------------------
(* app/core/learning.py: helpers                                           *)

\* float(x) for the strings of the model; None stands for a ValueError.
FloatOfStr(s) ==
    CASE s = "25" -> Num(25)
      [] s = "0" -> Num(0)
      [] OTHER -> None

\* _safe_float(x, default)
SafeFloat(x, default) ==
    CASE x.t = "none" -> default
      [] x.t \in {"num", "nan"} -> x
      [] x.t = "str" -> IF FloatOfStr(x.s).t = "none" THEN default ELSE FloatOfStr(x.s)

\* _market_cap_bucket(market_cap); market caps are in units of 1e9.
MarketCapBucket(market_cap) ==
    CASE market_cap.t = "none" -> "N/A"
      [] market_cap.n >= 200 -> "Large-cap"
      [] market_cap.n >= 10 -> "Mid-cap"
      [] market_cap.n >= 2 -> "Small-cap"
      [] OTHER -> "Micro-cap"

\* _vol_bucket(ann_vol)
VolBucket(ann_vol) ==
    CASE ann_vol.t = "none" -> "N/A"
      [] ann_vol.n < 15 -> "Low"
      [] ann_vol.n < 30 -> "Moderate"
      [] OTHER -> "High"

\* The position counted from 1 instead of 0.
FindCorrectOneBased(indexed, correct_index) ==
    IF \E k \in 1..Len(indexed) : indexed[k].old_i = correct_index
    THEN CHOOSE k \in 1..Len(indexed) : indexed[k].old_i = correct_index
    ELSE 0

\* The position (0-based) in `indexed` of the entry whose old index is
\* correct_index; 0 when there is none (new_correct_index = 0 before the loop).
FindCorrect(indexed, correct_index) ==
    IF \E k \in 1..Len(indexed) : indexed[k].old_i = correct_index
    THEN (CHOOSE k \in 1..Len(indexed) :
              /\ indexed[k].old_i = correct_index
              /\ \A m \in 1..(k - 1) : indexed[m].old_i # correct_index) - 1
    ELSE 0

\* A shuffle that keeps the index it was given.
ShuffleOptionsStaleIndex(options, correct_index, rng) ==
    LET indexed == [k \in 1..Len(options) |-> [old_i |-> k - 1, opt |-> options[k]]]
        sh == Shuffle(indexed, rng)
    IN  [options |-> [k \in 1..Len(options) |-> sh.x[k].opt],
         correct_index |-> correct_index,
         given |-> options,
         rng |-> sh.rng]

\* A shuffle of the caller's list itself (rng.shuffle(options)), returned.
ShuffleOptionsInPlace(options, correct_index, rng) ==
    LET indexed == [k \in 1..Len(options) |-> [old_i |-> k - 1, opt |-> options[k]]]
        sh == Shuffle(indexed, rng)
        shuffledOptions == [k \in 1..Len(options) |-> sh.x[k].opt]
    IN  [options |-> shuffledOptions,
         correct_index |-> FindCorrect(sh.x, correct_index),
         given |-> shuffledOptions,
         rng |-> sh.rng]

\* _shuffle_options_keep_answer(options, correct_index, rng): the new list and
\* index returned, the caller's list after the call (`given`: the shuffle works
\* on the copy list(enumerate(options))) and the generator after it.
ShuffleOptionsKeepAnswer(options, correct_index, rng) ==
    LET indexed == [k \in 1..Len(options) |-> [old_i |-> k - 1, opt |-> options[k]]]
        sh == Shuffle(indexed, rng)
    IN  [options |-> [k \in 1..Len(options) |-> sh.x[k].opt],
         correct_index |-> FindCorrect(sh.x, correct_index),
         given |-> options,
         rng |-> sh.rng]

\* _make_question(question, options, correct_option_index, explanation, rng):
\* the question dict, the caller's options list after the call and the
\* generator after it.
MakeQuestion(question, options, correct_option_index, explanation, rng) ==
    IF Len(options) >= 2
    THEN LET sh == ShuffleOptionsKeepAnswer(options, correct_option_index, rng)
         IN  [q |-> [question |-> question,
                     options |-> sh.options,
                     correct_option_index |-> sh.correct_index,
                     explanation |-> explanation],
              given |-> sh.given,
              rng |-> sh.rng]
    ELSE [q |-> [question |-> question,
                 options |-> options,
                 correct_option_index |-> correct_option_index,
                 explanation |-> explanation],
          given |-> options,
          rng |-> rng]

-----------------------------------------------------------------------------
(* app/core/learning.py: generate_quiz_and_flashcards                      *)

\* dict.get(key) on a mapping of the model: a missing key reads as None.
Get(d, key) == IF key \in DOMAIN d THEN d[key] ELSE None

\* correct_option_index=0 if direction == "increased" else 1, with
\* direction = "increased" if period_return >= 0 else "decreased"; every
\* comparison with nan is False.
DirectionIndex(period_return) ==
    IF period_return.t = "num" /\ period_return.n >= 0 THEN 0 ELSE 1

\* The mapping shifted by one option.
VolIndexShifted(vol_bucket) ==
    CASE vol_bucket = "Low" -> 1
      [] vol_bucket = "Moderate" -> 2
      [] vol_bucket = "High" -> 3
      [] OTHER -> 1

\* {"Low": 0, "Moderate": 1, "High": 2}.get(vol_bucket, 1)
VolIndex(vol_bucket) ==
    CASE vol_bucket = "Low" -> 0
      [] vol_bucket = "Moderate" -> 1
      [] vol_bucket = "High" -> 2
      [] OTHER -> 1

\* {"Large-cap": 0, "Mid-cap": 1, "Small-cap": 2, "Micro-cap": 3}.get(cap_bucket, 1)
CapIndex(cap_bucket) ==
    CASE cap_bucket = "Large-cap" -> 0
      [] cap_bucket = "Mid-cap" -> 1
      [] cap_bucket = "Small-cap" -> 2
      [] cap_bucket = "Micro-cap" -> 3
      [] OTHER -> 1

\* One bank.append(_make_question(...)) site: the condition guarding it, the
\* question template and the arguments given to _make_question.
Site(when, kind, options, correct) ==
    [when |-> when, kind |-> kind, options |-> options, correct |-> correct]

\* The bank.append sites of generate_quiz_and_flashcards, in source order.
Sites(analysis) ==
    LET company == Get(analysis, "company")
        pm == Get(analysis, "price_metrics")
        sector == Get(company, "sector")
        industry == Get(company, "industry")
        exchange == Get(company, "exchange")
        country == Get(company, "country")
        currency == Get(company, "currency")
        market_cap == SafeFloat(Get(company, "market_cap"), None)
        trailing_pe == Get(company, "trailing_pe")
        dividend_yield == Get(company, "dividend_yield")
        beta == Get(company, "beta")
        period_return == Or(SafeFloat(Get(pm, "period_return_pct"), Num(0)), Num(0))
        ann_vol == SafeFloat(Get(pm, "annualized_volatility_pct"), None)
        daily_vol == SafeFloat(Get(pm, "daily_volatility_pct"), None)
        max_dd == SafeFloat(Get(pm, "max_drawdown_pct"), None)
        min_price == SafeFloat(Get(pm, "min_price"), None)
        max_price == SafeFloat(Get(pm, "max_price"), None)
        vol_bucket == VolBucket(ann_vol)
        cap_bucket == MarketCapBucket(market_cap)
    IN  << Site(Truthy(sector), "sector",
                <<sector, Str("Technology"), Str("Healthcare"), Str("Financial Services")>>, 0),
           Site(Truthy(exchange), "exchange",
                <<exchange, Str("NYSE"), Str("NASDAQ"), Str("AMEX")>>, 0),
           Site(Truthy(country), "country",
                <<country, Str("United States"), Str("Canada"), Str("United Kingdom")>>, 0),
           Site(Truthy(currency), "currency",
                <<currency, Str("USD"), Str("EUR"), Str("GBP")>>, 0),
           Site(Truthy(industry), "industry",
                <<industry, Str("Banks"), Str("Oil & Gas"), Str("Utilities")>>, 0),
           Site(TRUE, "direction",
                <<Str("Increased in value"), Str("Decreased in value"),
                  Str("Stayed exactly the same"), Str("We do not know from the data")>>,
                DirectionIndex(period_return)),
           Site(ann_vol.t # "none", "volatility",
                <<Str("Low volatility"), Str("Moderate volatility"),
                  Str("High volatility"), Str("Guaranteed return")>>,
                VolIndex(vol_bucket)),
           Site(max_dd.t # "none", "drawdown",
                <<Str("The worst peak-to-trough drop over the period"),
                  Str("The average daily price movement"),
                  Str("The annual return guaranteed every year"),
                  Str("The dividend yield paid each year")>>, 0),
           Site(min_price.t # "none" /\ max_price.t # "none" /\ min_price # max_price,
                "range",
                <<Str("The lowest and highest prices observed in the selected period"),
                  Str("The guaranteed future trading range"),
                  Str("The company's book value range"),
                  Str("The dividend range per share")>>, 0),
           Site(daily_vol.t # "none", "daily_volatility",
                <<Str("Typical day-to-day price movement magnitude (in percent terms)"),
                  Str("The company's annual profit margin"),
                  Str("A guaranteed daily profit"),
                  Str("The maximum possible daily loss")>>, 0),
           Site(market_cap.t # "none", "market_cap",
                <<Str("Large-cap"), Str("Mid-cap"), Str("Small-cap"), Str("Micro-cap")>>,
                CapIndex(cap_bucket)),
           Site(trailing_pe.t # "none", "trailing_pe",
                <<Str("Price per share divided by earnings per share"),
                  Str("Earnings per share divided by price per share"),
                  Str("Dividend per share divided by price per share"),
                  Str("Revenue divided by market cap")>>, 0),
           Site(dividend_yield.t # "none", "dividend_yield",
                <<Str("Annual dividends per share divided by stock price"),
                  Str("Stock price divided by annual dividends per share"),
                  Str("Market cap divided by dividends paid"),
                  Str("Profit divided by market cap")>>, 0),
           Site(beta.t # "none", "beta",
                <<Str("How sensitive the stock is to broad market moves"),
                  Str("How many shares exist"),
                  Str("How much dividend is paid each quarter"),
                  Str("How many years the company has existed")>>, 0) >>

\* A builder that leaves the price-direction question out.
RECURSIVE BuildBankNoDirection(_, _, _, _, _, _)
BuildBankNoDirection(sites, i, ticker, rng, madeSoFar, bankSoFar) ==
    IF i > Len(sites)
    THEN [made |-> madeSoFar, bank |-> bankSoFar, rng |-> rng]
    ELSE IF sites[i].when /\ sites[i].kind # "direction"
         THEN LET mq == MakeQuestion(<<sites[i].kind, ticker>>, sites[i].options,
                                     sites[i].correct, sites[i].kind, rng)
              IN  BuildBankNoDirection(sites, i + 1, ticker, mq.rng,
                            Append(madeSoFar, [question |-> <<sites[i].kind, ticker>>,
                                               options |-> sites[i].options,
                                               given |-> mq.given,
                                               correct_option_index |-> sites[i].correct]),
                            Append(bankSoFar, mq.q))
         ELSE BuildBankNoDirection(sites, i + 1, ticker, rng, madeSoFar, bankSoFar)

\* Runs the bank.append sites from site i on: the arguments given to
\* _make_question with the options list as the call left it (made), the bank
\* and the generator after the last site.
RECURSIVE BuildBank(_, _, _, _, _, _)
BuildBank(sites, i, ticker, rng, madeSoFar, bankSoFar) ==
    IF i > Len(sites)
    THEN [made |-> madeSoFar, bank |-> bankSoFar, rng |-> rng]
    ELSE IF sites[i].when
         THEN LET mq == MakeQuestion(<<sites[i].kind, ticker>>, sites[i].options,
                                     sites[i].correct, sites[i].kind, rng)
              IN  BuildBank(sites, i + 1, ticker, mq.rng,
                            Append(madeSoFar, [question |-> <<sites[i].kind, ticker>>,
                                               options |-> sites[i].options,
                                               given |-> mq.given,
                                               correct_option_index |-> sites[i].correct]),
                            Append(bankSoFar, mq.q))
         ELSE BuildBank(sites, i + 1, ticker, rng, madeSoFar, bankSoFar)

\* A selection that returns the whole bank.
SelectAll(bank_, num_questions) == bank_

\* A selection without the floor of one question.
SelectNoFloor(bank_, num_questions) ==
    SubSeq(bank_, 1, Max(0, Min(num_questions, Len(bank_))))

\* bank[: max(1, min(num_questions, len(bank)))]
Select(bank_, num_questions) ==
    SubSeq(bank_, 1, Min(Len(bank_), Max(1, Min(num_questions, Len(bank_)))))

\* The flashcards: seven fixed cards, the third interpolating the display name.
Flashcards(name) ==
    << [front |-> "What is volatility?", back |-> <<"volatility">>],
       [front |-> "What is maximum drawdown?", back |-> <<"drawdown">>],
       [front |-> "What does a positive period return mean?", back |-> <<"For ", name>>],
       [front |-> "What is the P/E ratio (Price/Earnings)?", back |-> <<"pe">>],
       [front |-> "What is dividend yield?", back |-> <<"dividend yield">>],
       [front |-> "What is market capitalization?", back |-> <<"market cap">>],
       [front |-> "What is beta?", back |-> <<"beta">> ] >>

\* generate_quiz_and_flashcards(ticker, analysis, user_level, num_questions, seed);
\* `entropy` is what the OS hands an unseeded generator.  Besides the returned
\* deck the result records the arguments _make_question received, the bank,
\* and the analysis record after the call (the body only reads it, with .get).
GenerateQuizAndFlashcards(ticker, analysis, user_level, num_questions, seed, entropy) ==
    LET rng == Random(seed, entropy)
        company == Get(analysis, "company")
        name == Or(Or(Get(company, "short_name"), Get(company, "long_name")), ticker)
        built == BuildBank(Sites(analysis), 1, ticker, rng, <<>>, <<>>)
        permuted == Shuffle(built.bank, built.rng).x
    IN  [made |-> built.made,
         bank |-> built.bank,
         analysis |-> analysis,
         shuffled |-> permuted,
         deck |-> [quiz |-> Select(permuted, num_questions),
                   flashcards |-> Flashcards(name)]]

-----------------------------------------------------------------------------
(* Strings of the request fields are sequences of characters.              *)

\* The characters of the model, in code order.
Printable ==
    <<" ", "0", "1", "2", "3", "4", "5", "6", "7", "8", "9", "A", "B",
      "C", "D", "E", "F", "G", "H", "I", "J", "K", "L", "M", "N", "O",
      "P", "Q", "R", "S", "T", "U", "V", "W", "X", "Y", "Z", "a", "b",
      "c", "d", "e", "f", "g", "h", "i", "j", "k", "l", "m", "n", "o",
      "p", "q", "r", "s", "t", "u", "v", "w", "x", "y", "z", "|" >>

Whitespace == {" "}

\* ord(c), up to a shift: the position of c in Printable.
Ord(c) == CHOOSE i \in 1..Len(Printable) : Printable[i] = c

\* c.upper(): the 26 lowercase letters follow the digits and the capitals.
UpperChar(c) == IF Ord(c) \in 38..63 THEN Printable[Ord(c) - 26] ELSE c

\* s.upper()
Upper(s) == [k \in 1..Len(s) |-> UpperChar(s[k])]

\* c.lower()
LowerChar(c) == IF Ord(c) \in 12..37 THEN Printable[Ord(c) + 26] ELSE c

\* s.capitalize(): the first character uppercased, the rest lowercased.
Capitalize(s) == [k \in 1..Len(s) |-> IF k = 1 THEN UpperChar(s[k]) ELSE LowerChar(s[k])]

\* s.lstrip() and s.rstrip()
RECURSIVE LStrip(_)
LStrip(s) == IF s # <<>> /\ Head(s) \in Whitespace THEN LStrip(Tail(s)) ELSE s

RECURSIVE RStrip(_)
RStrip(s) ==
    IF s # <<>> /\ s[Len(s)] \in Whitespace THEN RStrip(SubSeq(s, 1, Len(s) - 1)) ELSE s

\* s.strip()
Strip(s) == RStrip(LStrip(s))

-----------------------------------------------------------------------------
(* app/api/routes.py: stable_seed                                          *)

\* One 16-bit word of the digest: a polynomial fold of the bytes.
RECURSIVE DigestWord(_, _, _)
DigestWord(bytes, mult, acc) ==
    IF bytes = <<>>
    THEN acc
    ELSE DigestWord(Tail(bytes), mult, (acc * mult + Ord(Head(bytes)) + 1) % 65536)

\* The four hex digits of a 16-bit word, most significant first.
HexDigits(w) == <<w \div 4096, (w \div 256) % 16, (w \div 16) % 16, w % 16>>

\* hashlib.sha256(key).hexdigest(), abstracted: a hex string that is a
\* function of the bytes (three 16-bit words stand for the 64 digits).
Sha256HexDigest(bytes) ==
    HexDigits(DigestWord(bytes, 31, 7)) \o HexDigits(DigestWord(bytes, 131, 11))
        \o HexDigits(DigestWord(bytes, 257, 13))

\* The value of a string of hex digits of at most 4 digits' width per limb.
RECURSIVE HexValue(_)
HexValue(ds) == IF ds = <<>> THEN 0 ELSE HexValue(SubSeq(ds, 1, Len(ds) - 1)) * 16 + ds[Len(ds)]

\* int(h, 16) as a Python int: the last 4 digits are the low limb.
IntOfHex(h) ==
    PyInt(HexValue(SubSeq(h, 1, Len(h) - 4)), HexValue(SubSeq(h, Len(h) - 3, Len(h))))

\* stable_seed without the user level in the key.
StableSeedNoLevel(ticker, period, interval, user_level) ==
    LET t == Upper(Strip(ticker))
        p == Strip(period)
        i == Strip(interval)
        key == t \o <<"|">> \o p \o <<"|">> \o i
    IN  [key |-> key, seed |-> IntOfHex(SubSeq(Sha256HexDigest(key), 1, 8))]

\* stable_seed without the .upper() of the ticker.
StableSeedNoUpper(ticker, period, interval, user_level) ==
    LET t == Strip(ticker)
        p == Strip(period)
        i == Strip(interval)
        u == Strip(user_level)
        key == t \o <<"|">> \o p \o <<"|">> \o i \o <<"|">> \o u
    IN  [key |-> key, seed |-> IntOfHex(SubSeq(Sha256HexDigest(key), 1, 8))]

\* stable_seed(ticker, period, interval, user_level): the seed, and the key
\* string that was hashed.
StableSeed(ticker, period, interval, user_level) ==
    LET t == Upper(Strip(ticker))
        p == Strip(period)
        i == Strip(interval)
        u == Strip(user_level)
        key == t \o <<"|">> \o p \o <<"|">> \o i \o <<"|">> \o u
    IN  [key |-> key, seed |-> IntOfHex(SubSeq(Sha256HexDigest(key), 1, 8))]

-----------------------------------------------------------------------------
(* The inputs of generate_quiz_and_flashcards.                             *)

\* An input record differs from a baseline record in at most this many fields.
MaxDeviations == 1

\* num_questions defaults to 5, and the /analyze handlers pass 5.
DefaultNumQuestions == 5

CompanyFields ==
    <<"short_name", "long_name", "sector", "industry", "exchange", "country",
      "currency", "market_cap", "trailing_pe", "dividend_yield", "beta">>

MetricFields ==
    <<"period_return_pct", "annualized_volatility_pct", "daily_volatility_pct",
      "max_drawdown_pct", "min_price", "max_price">>

FieldOrder == CompanyFields \o MetricFields

\* The values a present field takes: for the company's categories a decoy of
\* the question, another value and (for sector) the empty string; for the
\* numbers one value per bucket and an unparseable string, and for the period
\* return the nan a price series with a gap gives.
PresentValues(f) ==
    CASE f = "short_name" -> {Str("Apple")}
      [] f = "long_name" -> {Str("Apple Inc.")}
      [] f = "sector" -> {Str(""), Str("Technology"), Str("Energy")}
      [] f = "industry" -> {Str(""), Str("Banks"), Str("Semiconductors")}
      [] f = "exchange" -> {Str(""), Str("NYSE"), Str("NMS")}
      [] f = "country" -> {Str(""), Str("United States"), Str("Japan")}
      [] f = "currency" -> {Str(""), Str("USD"), Str("JPY")}
      [] f = "market_cap" -> {Str("abc"), Num(1), Num(5), Num(50), Num(300)}
      [] f = "trailing_pe" -> {Str("abc"), Num(25)}
      [] f = "dividend_yield" -> {Str("abc"), Num(1)}
      [] f = "beta" -> {Str("abc"), Num(1)}
      [] f = "period_return_pct" -> {Str("abc"), NaN, Num(-5), Num(0), Num(5)}
      [] f = "annualized_volatility_pct" -> {Str("abc"), Num(10), Num(20), Num(40)}
      [] f = "daily_volatility_pct" -> {Num(1)}
      [] f = "max_drawdown_pct" -> {Num(-10)}
      [] f = "min_price" -> {Num(99)}
      [] f = "max_price" -> {Num(99), Num(121)}

\* Baseline: no company snapshot and no metrics at all.
EmptyValues == [i \in 1..Len(FieldOrder) |-> None]

\* Baseline: the metrics compute_price_metrics returns for a series that rose
\* from 100 to 105 between 99 and 121, with an all-absent company snapshot.
MetricsOnlyValues ==
    [i \in 1..Len(FieldOrder) |->
        CASE FieldOrder[i] = "period_return_pct" -> Num(5)
          [] FieldOrder[i] = "annualized_volatility_pct" -> Num(20)
          [] FieldOrder[i] = "daily_volatility_pct" -> Num(1)
          [] FieldOrder[i] = "max_drawdown_pct" -> Num(-10)
          [] FieldOrder[i] = "min_price" -> Num(99)
          [] FieldOrder[i] = "max_price" -> Num(121)
          [] OTHER -> None]

\* The value lists for fields i.. of FieldOrder that differ from base in at
\* most `budget` fields.
RECURSIVE FieldValues(_, _, _)
FieldValues(base, i, budget) ==
    IF i > Len(FieldOrder)
    THEN {<<>>}
    ELSE {<<base[i]>> \o rest : rest \in FieldValues(base, i + 1, budget)}
         \cup (IF budget > 0
               THEN {<<v>> \o rest :
                        v \in (PresentValues(FieldOrder[i]) \cup {None}) \ {base[i]},
                        rest \in FieldValues(base, i + 1, budget - 1)}
               ELSE {})

\* The analysis record (the "company" and "price_metrics" mappings analyze_ticker
\* returns) holding the value list vs.
AnalysisOf(vs) ==
    [company |-> [f \in Range(CompanyFields) |->
                     vs[CHOOSE i \in 1..Len(FieldOrder) : FieldOrder[i] = f]],
     price_metrics |-> [f \in Range(MetricFields) |->
                     vs[CHOOSE i \in 1..Len(FieldOrder) : FieldOrder[i] = f]]]

AnalysisRecords ==
    {AnalysisOf(vs) : vs \in FieldValues(EmptyValues, 1, MaxDeviations)
                             \cup FieldValues(MetricsOnlyValues, 1, MaxDeviations)}

Tickers == {Str("AAPL")}

UserLevels == {Str("Beginner"), Str("Intermediate"), Str("Advanced")}

\* The <<analysis, user_level>> pairs of the calls: every record for a
\* beginner, and the two baseline records for every level.
GeneratorInputs ==
    (AnalysisRecords \X {Str("Beginner")})
        \cup ({AnalysisOf(EmptyValues), AnalysisOf(MetricsOnlyValues)} \X UserLevels)

Seeds == {None, PyInt(0, 7), PyInt(0, 8)}

\* What the OS may hand an unseeded generator.
Entropies == {11, 12}

NumQuestions == {0, 1, 2, DefaultNumQuestions}

NoCall == [ticker |-> None, analysis |-> None, user_level |-> None,
           num_questions |-> 0, seed |-> None]

NoDeck == [quiz |-> <<>>, flashcards |-> <<>>]

\* The threads that call generate_quiz_and_flashcards at the same time (the
\* handlers are plain `def`s, which the server runs in a thread pool).
Callers == {"a", "b"}

\* A caller that has not called yet.
IdleFrame == [pc |-> "idle", args |-> NoCall, i |-> 0, bank |-> <<>>,
              deck |-> NoDeck, overlapped |-> FALSE]

\* The sidebar as the page opens: text_input(value="AAPL"), selectbox index=1
\* of the periods, index=0 of the intervals and of the levels.
DefaultWidgets ==
    [ticker |-> <<"A", "A", "P", "L">>, period |-> <<"1", "y">>,
     interval |-> <<"1", "d">>, user_level |-> "Beginner"]

-----------------------------------------------------------------------------
(* Spec: calls of generate_quiz_and_flashcards.                            *)

Init ==
    /\ call = NoCall
    /\ made = <<>>
    /\ bank = <<>>
    /\ shuffled = <<>>
    /\ deck = NoDeck
    /\ prevDeck = NoDeck
    /\ calls = 0
    /\ argsAfter = None
    /\ seedCalls = <<>>
    /\ apiCalls = <<>>
    /\ metricsCall = None
    /\ tickerCall = None
    /\ session_state = <<>>
    /\ widgets = DefaultWidgets
    /\ lastRun = None
    /\ runs = 0
    /\ frames = [c \in Callers |-> IdleFrame]
    /\ generators = <<>>

\* A first call with arguments of the caller's choice.
Generate ==
    /\ calls = 0
    /\ \E ticker \in Tickers, input \in GeneratorInputs,
          num_questions \in NumQuestions, seed \in Seeds, entropy \in Entropies :
         LET analysis == input[1]
             user_level == input[2]
             r == GenerateQuizAndFlashcards(ticker, analysis, user_level,
                                            num_questions, seed, entropy)
         IN  /\ call' = [ticker |-> ticker, analysis |-> analysis,
                         user_level |-> user_level,
                         num_questions |-> num_questions, seed |-> seed]
             /\ made' = r.made
             /\ bank' = r.bank
             /\ shuffled' = r.shuffled
             /\ deck' = r.deck
             /\ prevDeck' = NoDeck
             /\ calls' = 1
             /\ argsAfter' = r.analysis
             /\ UNCHANGED <<seedCalls, apiCalls, analysisVars, uiVars, concVars>>

\* The same call made again, with the record the caller still holds.
Regenerate ==
    /\ calls = 1
    /\ \E entropy \in Entropies :
         LET r == GenerateQuizAndFlashcards(call.ticker, argsAfter, call.user_level,
                                            call.num_questions, call.seed, entropy)
         IN  /\ made' = r.made
             /\ bank' = r.bank
             /\ shuffled' = r.shuffled
             /\ deck' = r.deck
             /\ prevDeck' = deck
             /\ calls' = 2
             /\ argsAfter' = r.analysis
             /\ UNCHANGED <<call, seedCalls, apiCalls, analysisVars, uiVars, concVars>>

Next == Generate \/ Regenerate

Spec == Init /\ [][Next]_vars

-----------------------------------------------------------------------------
(* SpecSeed: calls of stable_seed.                                         *)

\* The arguments of the stable_seed calls of a behaviour hold at most this
\* many characters in total.
MaxInputChars == 3

\* A lowercase and an uppercase letter, whitespace and the key's delimiter.
FieldAlphabet == {"a", "A", " ", "|"}

RECURSIVE StringsOfLen(_)
StringsOfLen(n) ==
    IF n = 0 THEN {<<>>} ELSE {<<c>> \o r : c \in FieldAlphabet, r \in StringsOfLen(n - 1)}

StringsUpTo(n) == UNION {StringsOfLen(k) : k \in 0..n}

\* The argument lists <<ticker, period, interval, user_level>> from field f on
\* that hold at most `budget` characters.
RECURSIVE ArgsFrom(_, _)
ArgsFrom(f, budget) ==
    IF f > 4
    THEN {<<>>}
    ELSE UNION {{<<str>> \o rest : rest \in ArgsFrom(f + 1, budget - Len(str))} :
                   str \in StringsUpTo(budget)}

RECURSIVE CharsIn(_)
CharsIn(args) == IF args = <<>> THEN 0 ELSE Len(Head(args)) + CharsIn(Tail(args))

CharsUsed == IF seedCalls = <<>> THEN 0 ELSE CharsIn(seedCalls[1].args)

\* A call stable_seed(ticker, period, interval, user_level).
StableSeedCall ==
    /\ Len(seedCalls) < 2
    /\ \E args \in ArgsFrom(1, MaxInputChars - CharsUsed) :
         LET r == StableSeed(args[1], args[2], args[3], args[4])
         IN  seedCalls' = Append(seedCalls, [args |-> args, key |-> r.key, seed |-> r.seed])
    /\ UNCHANGED <<quizVars, apiCalls, analysisVars, uiVars, concVars>>

NextSeed == StableSeedCall

SpecSeed == Init /\ [][NextSeed]_vars

-----------------------------------------------------------------------------
(* The /analyze handlers of app/api/routes.py and app/api/main.py.         *)

\* A request is rejected or failed with an HTTP status and nothing else.
ErrorResponse(status) ==
    [status |-> status, ticker |-> <<>>, analysis |-> None, report_markdown |-> "",
     quiz |-> <<>>, flashcards |-> <<>>]

\* The report stage of both handlers: generate_learning_report's markdown, or
\* the fallback markdown when it raises.
ReportStage(upstream) == IF upstream.report = "raises" THEN "fallback" ELSE "report"

\* The analysis stage of both handlers: 0 when analyze_ticker returned, else
\* the status of the HTTPException raised.
AnalysisStage(upstream) ==
    CASE upstream.analysis = Str("ValueError") -> 404
      [] upstream.analysis = Str("Exception") -> 500
      [] OTHER -> 0

\* routes.py: the collaborators analyze(request) calls, in the order it calls
\* them: none for an empty ticker, analyze_ticker alone when it raises.
RoutesAnalyzeStages(request, upstream) ==
    IF Upper(Strip(request.ticker)) = <<>>
    THEN <<>>
    ELSE IF AnalysisStage(upstream) # 0
    THEN <<"analyze_ticker">>
    ELSE <<"analyze_ticker", "generate_learning_report", "stable_seed",
           "generate_quiz_and_flashcards">>

\* routes.py: analyze(request); `upstream` is what analyze_ticker and
\* generate_learning_report do for this request, and the message of the
\* exception the quiz generation is made to raise, if any.  A key the
\* response dict does not hold is outside the record's domain.
RoutesAnalyzeResponse(request, upstream, entropy) ==
    LET ticker == Upper(Strip(request.ticker))
        period == Strip(request.period)
        interval == Strip(request.interval)
        user_level == Strip(request.user_level)
        seed == StableSeed(ticker, period, interval, user_level).seed
        d == GenerateQuizAndFlashcards(Str(ticker), upstream.analysis, Str(user_level),
                                       DefaultNumQuestions, seed, entropy).deck
        raised == upstream.quiz # None
        quiz_error == upstream.quiz
        response == [status |-> 200, ticker |-> ticker, analysis |-> upstream.analysis,
                     report_markdown |-> ReportStage(upstream),
                     quiz |-> IF raised THEN <<>> ELSE d.quiz,
                     flashcards |-> IF raised THEN <<>> ELSE d.flashcards]
    IN  IF ticker = <<>>
        THEN ErrorResponse(400)
        ELSE IF AnalysisStage(upstream) # 0
        THEN ErrorResponse(AnalysisStage(upstream))
        ELSE IF Truthy(quiz_error)
        THEN [quiz_error |-> quiz_error] @@ response
        ELSE response

S_6mo == <<"6", "m", "o">>
S_1y == <<"1", "y">>
S_2y == <<"2", "y">>
S_5y == <<"5", "y">>
S_1d == <<"1", "d">>
S_1wk == <<"1", "w", "k">>
S_1mo == <<"1", "m", "o">>
S_Beginner == <<"B", "e", "g", "i", "n", "n", "e", "r">>
S_Intermediate == <<"I", "n", "t", "e", "r", "m", "e", "d", "i", "a", "t", "e">>
S_Advanced == <<"A", "d", "v", "a", "n", "c", "e", "d">>

\* main.py: the field validators of AnalysisRequest; None when one raises.
ValidateRequest(request) ==
    LET ticker == Upper(Strip(request.ticker))
        period == Strip(request.period)
        interval == Strip(request.interval)
        v == Strip(IF request.user_level = <<>> THEN S_Beginner ELSE request.user_level)
        v_norm == Capitalize(v)
    IN  IF /\ ticker # <<>>
           /\ period \in {S_6mo, S_1y, S_2y, S_5y}
           /\ interval \in {S_1d, S_1wk, S_1mo}
           /\ v_norm \in {S_Beginner, S_Intermediate, S_Advanced}
        THEN [t |-> "request", ticker |-> ticker, period |-> period,
              interval |-> interval, user_level |-> v_norm]
        ELSE None

\* main.py: the collaborators analyze(request) calls, in the order it calls
\* them.
MainAnalyzeStages(request, upstream) ==
    IF ValidateRequest(request).t = "none"
    THEN <<>>
    ELSE IF AnalysisStage(upstream) # 0
    THEN <<"analyze_ticker">>
    ELSE <<"analyze_ticker", "generate_learning_report", "generate_quiz_and_flashcards">>

\* main.py: analyze(request), after the request model's validation (a
\* request that fails it is answered 422 by the framework).
MainAnalyzeResponse(request, upstream, entropy) ==
    LET valid == ValidateRequest(request)
        d == GenerateQuizAndFlashcards(Str(valid.ticker), upstream.analysis,
                                       Str(valid.user_level), DefaultNumQuestions,
                                       None, entropy).deck
    IN  IF valid.t = "none"
        THEN ErrorResponse(422)
        ELSE IF AnalysisStage(upstream) # 0
        THEN ErrorResponse(AnalysisStage(upstream))
        ELSE [status |-> 200, ticker |-> valid.ticker, analysis |-> upstream.analysis,
              report_markdown |-> ReportStage(upstream),
              quiz |-> IF upstream.quiz # None THEN <<>> ELSE d.quiz,
              flashcards |-> IF upstream.quiz # None THEN <<>> ELSE d.flashcards]

\* Baseline: a listed company with every snapshot field known.
ListedCompanyValues ==
    [i \in 1..Len(FieldOrder) |->
        CASE FieldOrder[i] = "short_name" -> Str("Apple")
          [] FieldOrder[i] = "long_name" -> Str("Apple Inc.")
          [] FieldOrder[i] = "sector" -> Str("Energy")
          [] FieldOrder[i] = "industry" -> Str("Semiconductors")
          [] FieldOrder[i] = "exchange" -> Str("NMS")
          [] FieldOrder[i] = "country" -> Str("Japan")
          [] FieldOrder[i] = "currency" -> Str("JPY")
          [] FieldOrder[i] = "market_cap" -> Num(300)
          [] FieldOrder[i] = "trailing_pe" -> Num(25)
          [] FieldOrder[i] = "dividend_yield" -> Num(1)
          [] FieldOrder[i] = "beta" -> Num(1)
          [] OTHER -> MetricsOnlyValues[i]]

\* What the collaborators do for a request: analyze_ticker raises ValueError,
\* raises something else or returns a record; generate_learning_report
\* returns or raises; the quiz generation runs as written (None) or is made
\* to raise an exception e with the message str(e), which may be empty.
Upstreams ==
    [analysis : {Str("ValueError"), Str("Exception"),
                 AnalysisOf(MetricsOnlyValues), AnalysisOf(ListedCompanyValues)},
     report : {"ok", "raises"},
     quiz : {None, Str("out of memory"), Str("")}]

ApiRequests ==
    [ticker : {<<"A", "A", "P", "L">>, <<" ", "a", "a", "p", "l">>, <<" ">>},
     period : {S_1y, <<" ">> \o S_1y, <<"9", "x">>},
     interval : {S_1d},
     user_level : {S_Beginner, <<"b", "e", "g", "i", "n", "n", "e", "r", " ">>,
                   <<"G", "u", "r", "u">>}]

\* The first request is the client's choice; a later one repeats it, with the
\* collaborators answering as before.
Repeats(handler, request, upstream) ==
    IF apiCalls = <<>>
    THEN TRUE
    ELSE /\ apiCalls[1].handler = handler
         /\ apiCalls[1].request = request
         /\ apiCalls[1].upstream = upstream

\* POST /analyze served by the router of app/api/routes.py.
RoutesAnalyze ==
    /\ Len(apiCalls) < 2
    /\ \E request \in ApiRequests, upstream \in Upstreams, entropy \in Entropies :
         /\ Repeats("routes", request, upstream)
         /\ apiCalls' = Append(apiCalls,
                [handler |-> "routes", request |-> request, upstream |-> upstream,
                 stages |-> RoutesAnalyzeStages(request, upstream),
                 response |-> RoutesAnalyzeResponse(request, upstream, entropy)])
    /\ UNCHANGED <<quizVars, seedCalls, analysisVars, uiVars, concVars>>

\* POST /analyze served by the app of app/api/main.py.
MainAnalyze ==
    /\ Len(apiCalls) < 2
    /\ \E request \in ApiRequests, upstream \in Upstreams, entropy \in Entropies :
         /\ Repeats("main", request, upstream)
         /\ apiCalls' = Append(apiCalls,
                [handler |-> "main", request |-> request, upstream |-> upstream,
                 stages |-> MainAnalyzeStages(request, upstream),
                 response |-> MainAnalyzeResponse(request, upstream, entropy)])
    /\ UNCHANGED <<quizVars, seedCalls, analysisVars, uiVars, concVars>>

NextApi == RoutesAnalyze \/ MainAnalyze

SpecApi == Init /\ [][NextApi]_vars

-----------------------------------------------------------------------------
(* app/core/analysis.py.  Prices are positive integers; a float computed   *)
(* from them is held exactly, as a fraction in lowest terms, and the       *)
(* results of std() and mean() are held as the expression they stand for.  *)

RECURSIVE Gcd(_, _)
Gcd(a, b) == IF b = 0 THEN a ELSE Gcd(b, a % b)

Abs(a) == IF a < 0 THEN -a ELSE a

\* The float n / d (d > 0), in lowest terms.
Frac(n, d) ==
    LET g == Gcd(Abs(n), d)
    IN  [t |-> "float", n |-> n \div g, d |-> d \div g]

\* a <= b for two floats.
FracLE(a, b) == a.n * b.d <= b.n * a.d

\* v * k for an integer k; NaN stays NaN, and a std() or mean() value is
\* kept as the product it is.
Times(v, k) ==
    CASE v.t = "nan" -> NaN
      [] v.t = "float" -> Frac(v.n * k, v.d)
      [] OTHER -> [t |-> "times", v |-> v, by |-> k]

\* What a call does: return a value or raise an exception.
Return(value) == [t |-> "return", value |-> value]
Raise(type, message) == [t |-> "raise", type |-> type, message |-> message]

\* A DataFrame: its column labels and, under each label, the column's values
\* in index order.
DataFrame(columns, series) ==
    [columns |-> columns, values |-> [c \in Range(columns) |-> series]]

\* len(df.index)
RowsOf(df) == IF df.columns = <<>> THEN 0 ELSE Len(df.values[df.columns[1]])

\* df.empty
IsEmpty(df) == df.columns = <<>> \/ RowsOf(df) = 0

\* close.pct_change().dropna(): the first element has no predecessor and is
\* dropped; prices are never missing.
PctChange(close) ==
    [i \in 1..Max(0, Len(close) - 1) |-> Frac(close[i + 1] - close[i], close[i])]

\* returns.std(): the sample standard deviation (ddof = 1), NaN for fewer
\* than 2 values.
Std(returns) == IF Len(returns) < 2 THEN NaN ELSE [t |-> "std", of |-> returns]

\* returns.mean(): NaN for no value.
Mean(returns) == IF Len(returns) < 1 THEN NaN ELSE [t |-> "mean", of |-> returns]

\* The maximum taken over the whole series.
GlobalMax(close) ==
    [i \in 1..Len(close) |->
        CHOOSE m \in Range(close) : \A k \in 1..Len(close) : close[k] <= m]

\* close.cummax()
CumMax(close) ==
    [i \in 1..Len(close) |->
        CHOOSE m \in Range(SubSeq(close, 1, i)) : \A k \in 1..i : close[k] <= m]

\* (close - running_max) / running_max
Drawdown(close, running_max) ==
    [i \in 1..Len(close) |-> Frac(close[i] - running_max[i], running_max[i])]

\* drawdown.min()
MinOf(fs) == CHOOSE m \in Range(fs) : \A k \in 1..Len(fs) : FracLE(m, fs[k])

\* daily_vol * np.sqrt(252) * 100: the square root is held as the factor's name.
Annualized(daily_vol) ==
    IF daily_vol.t = "nan" THEN NaN ELSE [t |-> "times_sqrt252", v |-> Times(daily_vol, 100)]

\* close.min()
SeriesMin(close) == CHOOSE m \in Range(close) : \A k \in 1..Len(close) : m <= close[k]

\* The last price taken for the highest.
SeriesMaxLast(close) == close[Len(close)]

\* close.max()
SeriesMax(close) == CHOOSE m \in Range(close) : \A k \in 1..Len(close) : close[k] <= m

\* compute_price_metrics(price_df)
ComputePriceMetrics(price_df) ==
    IF "Close" \notin Range(price_df.columns)
    THEN Raise("KeyError", <<"Close">>)
    ELSE LET close == price_df.values["Close"]
             returns == PctChange(close)
             n == Len(close)
             daily_vol == Std(returns)
             running_max == CumMax(close)
             drawdown == Drawdown(close, running_max)
         IN  IF n = 0
             THEN Raise("IndexError", <<"single positional indexer is out-of-bounds">>)
             ELSE Return(
                    [last_price |-> Frac(close[n], 1),
                     start_price |-> Frac(close[1], 1),
                     period_return_pct |-> Times(Frac(close[n] - close[1], close[1]), 100),
                     daily_volatility_pct |-> Times(daily_vol, 100),
                     annualized_volatility_pct |-> Annualized(daily_vol),
                     max_drawdown_pct |-> Times(MinOf(drawdown), 100),
                     mean_daily_return_pct |-> Times(Mean(returns), 100),
                     min_price |-> Frac(SeriesMin(close), 1),
                     max_price |-> Frac(SeriesMax(close), 1)])

\* get_price_history(ticker, period, interval); `download` is the DataFrame
\* yf.download returns for the request.
GetPriceHistory(ticker, period, interval, download) ==
    IF IsEmpty(download)
    THEN Raise("ValueError", <<"No price data found for ticker", ticker>>)
    ELSE Return(download)

\* The keys get_company_snapshot reads from Ticker.info, with the snapshot
\* field each is stored under.
InfoKeys ==
    << <<"short_name", "shortName">>, <<"long_name", "longName">>, <<"sector", "sector">>,
       <<"industry", "industry">>, <<"market_cap", "marketCap">>,
       <<"trailing_pe", "trailingPE">>, <<"forward_pe", "forwardPE">>,
       <<"dividend_yield", "dividendYield">>, <<"beta", "beta">>,
       <<"currency", "currency">>, <<"exchange", "exchange">>, <<"country", "country">> >>

\* get_company_snapshot(ticker); `info` is what reading yf.Ticker(ticker).info
\* does: raise, or return None or a mapping.
GetCompanySnapshot(ticker, info) ==
    IF info.t = "raise"
    THEN info
    ELSE LET d == IF info.value = None THEN <<>> ELSE info.value
         IN  Return([f \in {"ticker"} \cup {InfoKeys[k][1] : k \in 1..Len(InfoKeys)} |->
                        IF f = "ticker"
                        THEN Str(Upper(ticker))
                        ELSE Get(d, InfoKeys[CHOOSE k \in 1..Len(InfoKeys) :
                                                 InfoKeys[k][1] = f][2])])

\* analyze_ticker(ticker, period, interval); `now` is datetime.utcnow().
AnalyzeTicker(ticker, period, interval, download, info, now) ==
    LET upper == Upper(ticker)
        price_df == GetPriceHistory(upper, period, interval, download)
        price_metrics == ComputePriceMetrics(price_df.value)
        company_snapshot == GetCompanySnapshot(upper, info)
    IN  IF price_df.t = "raise" THEN price_df
        ELSE IF price_metrics.t = "raise" THEN price_metrics
        ELSE IF company_snapshot.t = "raise" THEN company_snapshot
        ELSE Return([ticker |-> upper, as_of |-> now, period |-> period,
                     interval |-> interval, company |-> company_snapshot.value,
                     price_metrics |-> price_metrics.value])

-----------------------------------------------------------------------------
(* SpecAnalysis: calls of compute_price_metrics and analyze_ticker.        *)

\* A close-price series holds at most this many points.
MaxSeriesLen == 4

PriceValues == {99, 100, 110, 121}

RECURSIVE SeriesOfLen(_)
SeriesOfLen(n) ==
    IF n = 0 THEN {<<>>} ELSE {<<c>> \o r : c \in PriceValues, r \in SeriesOfLen(n - 1)}

PriceSeries == UNION {SeriesOfLen(n) : n \in 0..MaxSeriesLen}

\* The column labels of the tables: the provider's usual ones, a table with
\* only a Close column and a table without one.
ColumnSets ==
    {<<"Open", "High", "Low", "Close", "Volume">>, <<"Close">>, <<"Open", "High", "Low">>}

PriceTables == {DataFrame(columns, series) : columns \in ColumnSets, series \in PriceSeries}

\* What reading Ticker.info does: raise, return None, or return a mapping
\* with a few or with all of the keys.
Infos ==
    {Raise("HTTPError", <<"404">>),
     Return(None),
     Return([k \in {"shortName", "sector"} |->
                IF k = "shortName" THEN Str("Apple") ELSE Str("Technology")]),
     Return([k \in {InfoKeys[j][2] : j \in 1..Len(InfoKeys)} |->
                CASE k = "shortName" -> Str("Apple")
                  [] k = "longName" -> Str("Apple Inc.")
                  [] k = "sector" -> Str("Technology")
                  [] k = "industry" -> Str("Consumer Electronics")
                  [] k = "currency" -> Str("USD")
                  [] k = "exchange" -> Str("NMS")
                  [] k = "country" -> Str("United States")
                  [] k = "marketCap" -> Num(3000)
                  [] k = "trailingPE" -> Num(30)
                  [] k = "forwardPE" -> Num(28)
                  [] k = "dividendYield" -> Str("abc")
                  [] k = "beta" -> Num(1)])}

AnalyzedTickers == {<<"a", "a", "p", "l">>}

Clocks == {1, 2}

\* A call compute_price_metrics(price_df).  The functions of analysis.py keep
\* no state between calls, so a behaviour makes one call.
ComputeMetricsCall ==
    /\ metricsCall = None
    /\ tickerCall = None
    /\ \E price_df \in PriceTables :
         metricsCall' = [price_df |-> price_df, outcome |-> ComputePriceMetrics(price_df)]
    /\ UNCHANGED <<quizVars, seedCalls, apiCalls, tickerCall, uiVars, concVars>>

\* A call analyze_ticker(ticker, "1y", "1d").
AnalyzeTickerCall ==
    /\ metricsCall = None
    /\ tickerCall = None
    /\ \E ticker \in AnalyzedTickers, download \in PriceTables, info \in Infos,
          now \in Clocks :
         tickerCall' = [ticker |-> ticker, download |-> download, info |-> info,
                        outcome |-> AnalyzeTicker(ticker, S_1y, S_1d, download, info, now)]
    /\ UNCHANGED <<quizVars, seedCalls, apiCalls, metricsCall, uiVars, concVars>>

NextAnalysis == ComputeMetricsCall \/ AnalyzeTickerCall

SpecAnalysis == Init /\ [][NextAnalysis]_vars

-----------------------------------------------------------------------------
(* app/ui/streamlit_app.py.  Streamlit runs the whole script once when the  *)
(* page opens and once more after every widget interaction; st.session_state*)
(* is what survives from one run to the next.                              *)

ResultKeys == {"analysis_result", "analyze_error", "last_payload"}

\* An _ensure_state that assigns None whether or not the key is there.
EnsureStateAlways(state) ==
    [k \in DOMAIN state \cup ResultKeys |-> IF k \in ResultKeys THEN None ELSE state[k]]

\* _ensure_state(): a key that is missing is set to None.
EnsureState(state) ==
    [k \in DOMAIN state \cup ResultKeys |-> IF k \in DOMAIN state THEN state[k] ELSE None]

\* call_analyze_api(ticker, period, interval, user_level); `server` is what
\* the POST does: answer with a body (with or without quiz questions), answer
\* with an error status (raise_for_status raises), or not answer in time.
CallAnalyzeApi(ticker, period, interval, user_level, server) ==
    CASE server = "answers" ->
            Return([ticker |-> ticker, period |-> period, quiz |-> <<"question">>])
      [] server = "answers without quiz" ->
            Return([ticker |-> ticker, period |-> period, quiz |-> <<>>])
      [] server = "answers 404" -> Raise("HTTPError", <<"404 Client Error">>)
      [] server = "times out" -> Raise("Timeout", <<"Read timed out.">>)

Servers == {"answers", "answers without quiz", "answers 404", "times out"}

\* main(): session_state after one run of the script with the sidebar values
\* `inputs`; run_button is whether this run follows a click on Analyze.
Main(state, inputs, run_button, server) ==
    LET ensured == EnsureState(state)
        ticker == Upper(Strip(inputs.ticker))
        payload == [ticker |-> ticker, period |-> inputs.period,
                    interval |-> inputs.interval, user_level |-> inputs.user_level]
        api == CallAnalyzeApi(ticker, inputs.period, inputs.interval,
                              inputs.user_level, server)
    IN  IF ~run_button
        THEN ensured
        ELSE IF ticker = <<>>
        THEN [ensured EXCEPT !["analysis_result"] = None,
                             !["analyze_error"] = Str("Please enter a ticker.")]
        ELSE IF api.t = "return"
        THEN [ensured EXCEPT !["analyze_error"] = None,
                             !["last_payload"] = payload,
                             !["analysis_result"] = api.value]
        ELSE [ensured EXCEPT !["last_payload"] = payload,
                             !["analysis_result"] = None,
                             !["analyze_error"] = Str(<<"Error calling API: ", api.message>>)]

\* The quiz widgets main() draws: none without a result or without questions.
QuizDrawn(state) ==
    /\ "analysis_result" \in DOMAIN state
    /\ state["analysis_result"] # None
    /\ state["analysis_result"].quiz # <<>>

-----------------------------------------------------------------------------
(* SpecUi: one browser session of the Streamlit page.                      *)

\* A session is followed for this many runs of the script.
MaxRuns == 4

TickerInputs == {<<"A", "A", "P", "L">>, <<" ", "m", "s", "f", "t">>, <<" ">>, <<>>}

PeriodInputs == {<<"6", "m", "o">>, <<"1", "y">>}

\* The page is opened: the first run of the script.
OpenPage ==
    /\ runs = 0
    /\ session_state' = Main(session_state, widgets, FALSE, "answers")
    /\ lastRun' = [run_button |-> FALSE, server |-> None]
    /\ runs' = 1
    /\ UNCHANGED <<widgets, quizVars, seedCalls, apiCalls, analysisVars, concVars>>

\* The user edits the ticker or picks another period: a rerun, no submission.
EditSettings ==
    /\ runs \in 1..(MaxRuns - 1)
    /\ \E ticker \in TickerInputs, period \in PeriodInputs :
         /\ widgets' = [widgets EXCEPT !.ticker = ticker, !.period = period]
         /\ widgets' # widgets
         /\ session_state' = Main(session_state, widgets', FALSE, "answers")
    /\ lastRun' = [run_button |-> FALSE, server |-> None]
    /\ runs' = runs + 1
    /\ UNCHANGED <<quizVars, seedCalls, apiCalls, analysisVars, concVars>>

\* The user ticks or unticks "Show answer" of the first question: Streamlit
\* stores the widget's value under its key, then reruns the script.
QuizClick ==
    /\ runs \in 1..(MaxRuns - 1)
    /\ QuizDrawn(session_state)
    /\ LET shown == IF "quiz_show_0" \in DOMAIN session_state
                    THEN session_state["quiz_show_0"] ELSE FALSE
           clicked == [k \in DOMAIN session_state \cup {"quiz_show_0"} |->
                          IF k = "quiz_show_0" THEN ~shown ELSE session_state[k]]
       IN  session_state' = Main(clicked, widgets, FALSE, "answers")
    /\ lastRun' = [run_button |-> FALSE, server |-> None]
    /\ runs' = runs + 1
    /\ UNCHANGED <<widgets, quizVars, seedCalls, apiCalls, analysisVars, concVars>>

\* The user clicks Analyze: a rerun with run_button set.
SubmitAnalyze ==
    /\ runs \in 1..(MaxRuns - 1)
    /\ \E server \in Servers :
         /\ session_state' = Main(session_state, widgets, TRUE, server)
         /\ lastRun' = [run_button |-> TRUE, server |-> Str(server)]
    /\ runs' = runs + 1
    /\ UNCHANGED <<widgets, quizVars, seedCalls, apiCalls, analysisVars, concVars>>

NextUi == OpenPage \/ EditSettings \/ QuizClick \/ SubmitAnalyze

SpecUi == Init /\ [][NextUi]_vars

-----------------------------------------------------------------------------
(* SpecConc: two calls of generate_quiz_and_flashcards running at once, a  *)
(* thread switch being possible between any two uses of a generator.       *)

\* One generator for the whole process, as with the functions of the random
\* module.
GeneratorShared(caller) == "a"

\* The generator a call draws from: rng = random.Random(seed) is a local of
\* the call, so every call has an object of its own.
GeneratorOf(caller) == caller

\* The first bank.append site from site i on whose condition holds; 0 when
\* there is none left.
NextSite(sites, i) ==
    IF \E j \in i..Len(sites) : sites[j].when
    THEN CHOOSE j \in i..Len(sites) :
             sites[j].when /\ \A k \in i..(j - 1) : ~sites[k].when
    ELSE 0

ConcTickers == {Str("AAPL"), Str("MSFT")}

ConcAnalyses == {AnalysisOf(EmptyValues), AnalysisOf(MetricsOnlyValues)}

\* The frames after caller c moved to `frame`: a call in progress in another
\* thread has been overlapped.
Switched(c, frame) ==
    [d \in Callers |->
        IF d = c THEN frame
        ELSE IF frames[d].pc = "build" THEN [frames[d] EXCEPT !.overlapped = TRUE]
        ELSE frames[d]]

\* Caller c enters generate_quiz_and_flashcards: rng = random.Random(seed).
CallEnter(c) ==
    /\ frames[c].pc = "idle"
    /\ \E ticker \in ConcTickers, analysis \in ConcAnalyses,
          seed \in Seeds, entropy \in Entropies :
         /\ generators' = [g \in DOMAIN generators \cup {GeneratorOf(c)} |->
                              IF g = GeneratorOf(c) THEN Random(seed, entropy)
                                                    ELSE generators[g]]
         /\ frames' = Switched(c, [frames[c] EXCEPT
                          !.pc = "build",
                          !.args = [ticker |-> ticker, analysis |-> analysis,
                                    user_level |-> Str("Beginner"),
                                    num_questions |-> DefaultNumQuestions,
                                    seed |-> seed],
                          !.i = 1])
    /\ UNCHANGED <<quizVars, seedCalls, apiCalls, analysisVars, uiVars>>

\* Caller c runs its next bank.append(_make_question(..., rng=rng)).
CallAppend(c) ==
    /\ frames[c].pc = "build"
    /\ LET sites == Sites(frames[c].args.analysis)
           j == NextSite(sites, frames[c].i)
           mq == MakeQuestion(<<sites[j].kind, frames[c].args.ticker>>, sites[j].options,
                              sites[j].correct, sites[j].kind, generators[GeneratorOf(c)])
       IN  /\ j # 0
           /\ generators' = [generators EXCEPT ![GeneratorOf(c)] = mq.rng]
           /\ frames' = Switched(c, [frames[c] EXCEPT !.i = j + 1,
                                                     !.bank = Append(@, mq.q)])
    /\ UNCHANGED <<quizVars, seedCalls, apiCalls, analysisVars, uiVars>>

\* Caller c, past the last site, shuffles its bank, slices it and returns.
CallReturn(c) ==
    /\ frames[c].pc = "build"
    /\ NextSite(Sites(frames[c].args.analysis), frames[c].i) = 0
    /\ LET args == frames[c].args
           company == Get(args.analysis, "company")
           name == Or(Or(Get(company, "short_name"), Get(company, "long_name")), args.ticker)
           sh == Shuffle(frames[c].bank, generators[GeneratorOf(c)])
       IN  /\ generators' = [generators EXCEPT ![GeneratorOf(c)] = sh.rng]
           /\ frames' = Switched(c, [frames[c] EXCEPT
                            !.pc = "done",
                            !.deck = [quiz |-> Select(sh.x, args.num_questions),
                                      flashcards |-> Flashcards(name)]])
    /\ UNCHANGED <<quizVars, seedCalls, apiCalls, analysisVars, uiVars>>

NextConc == \E c \in Callers : CallEnter(c) \/ CallAppend(c) \/ CallReturn(c)

SpecConc == Init /\ [][NextConc]_vars

-----------------------------------------------------------------------------
(* Properties of generate_quiz_and_flashcards (checked under Spec).        *)

\* The text a question dict marks as correct.
CorrectText(q) == q.options[q.correct_option_index + 1]

Distinct(seq) == \A i, j \in 1..Len(seq) : i # j => seq[i] # seq[j]

Seeded == call.seed.t # "none"

\* C1: in every question of the bank and of the returned quiz, the option at
\* correct_option_index after the option shuffle has the text of the option
\* that was marked correct when the question was built; for the sector
\* question that text is the record's sector.
C1_ShuffleKeepsAnswer ==
    /\ Len(bank) = Len(made)
    /\ \A i \in 1..Len(bank) :
          /\ bank[i].question = made[i].question
          /\ CorrectText(bank[i]) = CorrectText(made[i])
    /\ \A k \in 1..Len(deck.quiz) :
          /\ \E i \in 1..Len(made) :
                /\ deck.quiz[k].question = made[i].question
                /\ CorrectText(deck.quiz[k]) = CorrectText(made[i])
          /\ deck.quiz[k].question[1] = "sector"
                => CorrectText(deck.quiz[k]) = call.analysis.company["sector"]

\* C1 witness: a returned quiz holds the sector question, and the shuffle
\* moved its correct option away from the position it was built at.
C1_Witness ==
    \E k \in 1..Len(deck.quiz) :
        /\ deck.quiz[k].question[1] = "sector"
        /\ deck.quiz[k].correct_option_index # 0
        /\ CorrectText(deck.quiz[k]) = Str("Energy")

\* C2: correct_option_index is a valid index into options, in the arguments
\* given to _make_question, in the bank after the option shuffle and in the
\* returned quiz.
C2_IndexInRange ==
    /\ \A i \in 1..Len(made) :
          made[i].correct_option_index \in 0..(Len(made[i].options) - 1)
    /\ \A i \in 1..Len(bank) :
          bank[i].correct_option_index \in 0..(Len(bank[i].options) - 1)
    /\ \A k \in 1..Len(deck.quiz) :
          deck.quiz[k].correct_option_index \in 0..(Len(deck.quiz[k].options) - 1)

\* C2 witness: a returned question whose correct option was shuffled to the
\* last position, and a question built with a non-zero index.
C2_Witness ==
    /\ \E k \in 1..Len(deck.quiz) :
          deck.quiz[k].correct_option_index = Len(deck.quiz[k].options) - 1
    /\ \E i \in 1..Len(made) : made[i].correct_option_index > 0

\* C3: a second call with the same arguments and an integer seed returns the
\* deck the first call returned.
C3_SeededDeterminism ==
    (calls = 2 /\ Seeded) => deck = prevDeck

\* C3 witness: a seeded call was repeated and returned several shuffled questions.
C3_Witness ==
    /\ calls = 2
    /\ Seeded
    /\ Len(deck.quiz) >= 2
    /\ deck.quiz # SubSeq(bank, 1, Len(deck.quiz))

\* C7: the quiz is the first max(1, min(num_questions, bank size)) questions
\* of the shuffled bank, which is a permutation of the bank: every quiz
\* question is a bank question and none appears twice.
C7_QuizIsPrefixOfPermutation ==
    calls >= 1 =>
        /\ Len(deck.quiz) = Max(1, Min(call.num_questions, Len(bank)))
        /\ \A k \in 1..Len(deck.quiz) : deck.quiz[k] = shuffled[k]
        /\ Len(shuffled) = Len(bank)
        /\ Range(shuffled) = Range(bank)
        /\ Distinct(deck.quiz)
        /\ \A k \in 1..Len(deck.quiz) : deck.quiz[k] \in Range(bank)

\* C7 witness: the bank was reordered and the quiz is a proper prefix of it.
C7_Witness ==
    /\ calls >= 1
    /\ call.num_questions >= 2
    /\ Len(deck.quiz) = call.num_questions
    /\ Len(bank) > call.num_questions
    /\ shuffled # bank

\* C8 as stated: at most num_questions questions, and at least one when the
\* bank is not empty.
C8_AtMostRequested ==
    calls >= 1 =>
        /\ Len(deck.quiz) <= call.num_questions
        /\ Len(bank) > 0 => Len(deck.quiz) >= 1

\* C8 as amended: at most max(1, num_questions) questions, and at least one
\* when the bank is not empty.
C8_AtMostRequestedOrOne ==
    calls >= 1 =>
        /\ Len(deck.quiz) <= Max(1, call.num_questions)
        /\ Len(bank) > 0 => Len(deck.quiz) >= 1

\* C8 witness: no question was requested and one was returned; and a call
\* whose bank is larger than the request.
C8_Witness ==
    /\ calls >= 1
    /\ call.num_questions = 0
    /\ Len(deck.quiz) = 1
    /\ Len(bank) > 1

\* C9 as stated: every question of the bank has at least 2 options, pairwise
\* distinct.
C9_OptionsDistinct ==
    \A i \in 1..Len(bank) :
        /\ Len(bank[i].options) >= 2
        /\ Distinct(bank[i].options)

\* C10 as stated: every question is built with the correct option at
\* position 0 followed by three decoys.
C10_CorrectBuiltFirst ==
    \A i \in 1..Len(made) :
        /\ Len(made[i].options) = 4
        /\ made[i].correct_option_index = 0

\* C10 as amended: every question is built with 4 options; the correct option
\* is at position 0 except in the price-direction, volatility and market-cap
\* questions, whose option lists are fixed and whose index selects the
\* computed category (0..1, 0..2 and 0..3).
C10_CorrectBuiltFirstOrByCategory ==
    \A i \in 1..Len(made) :
        /\ Len(made[i].options) = 4
        /\ CASE made[i].question[1] = "direction" ->
                    made[i].correct_option_index \in 0..1
             [] made[i].question[1] = "volatility" ->
                    made[i].correct_option_index \in 0..2
             [] made[i].question[1] = "market_cap" ->
                    made[i].correct_option_index \in 0..3
             [] OTHER -> made[i].correct_option_index = 0

\* C10 witness: a bank whose direction question was built with index 1 beside
\* a drawdown question built with index 0.
C10_Witness ==
    /\ \E i \in 1..Len(made) :
          made[i].question[1] = "direction" /\ made[i].correct_option_index = 1
    /\ \E i \in 1..Len(made) :
          made[i].question[1] = "drawdown" /\ made[i].correct_option_index = 0

\* The questions of the bank built from template `kind`.
QuestionsOf(kind) == {i \in 1..Len(bank) : bank[i].question[1] = kind}

SnapshotCategories == {"sector", "exchange", "country", "currency", "industry"}

\* C11: for sector, exchange, country, currency and industry, the bank holds
\* no question of the field when the record's value is absent (None or the
\* empty string) and exactly one when it is present.
C11_CategoryQuestionIffPresent ==
    calls >= 1 =>
        \A f \in SnapshotCategories :
            LET v == call.analysis.company[f]
            IN  Cardinality(QuestionsOf(f)) = IF v.t = "none" \/ v = Str("") THEN 0 ELSE 1

\* C11 witness: a record with a sector and no exchange gave a bank with one
\* sector question and no exchange question.
C11_Witness ==
    /\ calls >= 1
    /\ call.analysis.company["sector"] = Str("Energy")
    /\ call.analysis.company["exchange"] = None
    /\ Cardinality(QuestionsOf("sector")) = 1
    /\ QuestionsOf("exchange") = {}

\* The question template built from the value of field f.
KindOf(f) ==
    CASE f = "period_return_pct" -> "direction"
      [] f = "annualized_volatility_pct" -> "volatility"
      [] f = "daily_volatility_pct" -> "daily_volatility"
      [] f = "max_drawdown_pct" -> "drawdown"
      [] f \in {"min_price", "max_price"} -> "range"
      [] OTHER -> f

\* The fields a question is built from; the display names build none.
QuizzedFields == (Range(CompanyFields) \cup Range(MetricFields)) \ {"short_name", "long_name"}

\* The value the record of the last call holds for field f.
FieldValue(f) ==
    IF f \in Range(CompanyFields) THEN call.analysis.company[f]
                                 ELSE call.analysis.price_metrics[f]

\* C12 as stated: a field that is present contributes at most one question
\* to the bank and a field that is absent contributes none.
C12_AbsentFieldsContributeNone ==
    calls >= 1 =>
        \A f \in QuizzedFields :
            /\ Cardinality(QuestionsOf(KindOf(f))) <= 1
            /\ FieldValue(f) = None => QuestionsOf(KindOf(f)) = {}

\* C13: the bank of every call holds exactly one price-direction question,
\* so the bank is not empty and the returned quiz has at least one question.
C13_DirectionAlwaysAsked ==
    calls >= 1 =>
        /\ Cardinality(QuestionsOf("direction")) = 1
        /\ Len(bank) >= 1
        /\ Len(deck.quiz) >= 1

\* C13 witness: a record whose only metrics-derived question is the
\* price-direction one (a falling price, no other metric), asked for no
\* question at all, gave a quiz of that one question.
C13_Witness ==
    /\ calls >= 1
    /\ call.num_questions = 0
    /\ call.analysis.price_metrics["period_return_pct"] = Num(-5)
    /\ Len(bank) = 1
    /\ Len(deck.quiz) = 1
    /\ deck.quiz[1].question[1] = "direction"
    /\ CorrectText(deck.quiz[1]) = Str("Decreased in value")

\* The display name of the record of the last call: the short name, else
\* the long name, else the ticker.
DisplayName ==
    LET short == call.analysis.company["short_name"]
        long == call.analysis.company["long_name"]
    IN  IF short # None /\ short # Str("") THEN short
        ELSE IF long # None /\ long # Str("") THEN long
        ELSE call.ticker

\* C14: every call returns the same seven flashcards in the same order,
\* whatever the seed, num_questions, user_level and metrics; only the back of
\* the period-return card varies, with the display name; and a repeated call
\* returns the same flashcards even without a seed.
C14_FlashcardsFixed ==
    calls >= 1 =>
        /\ [k \in 1..Len(deck.flashcards) |-> deck.flashcards[k].front]
              = <<"What is volatility?", "What is maximum drawdown?",
                  "What does a positive period return mean?",
                  "What is the P/E ratio (Price/Earnings)?", "What is dividend yield?",
                  "What is market capitalization?", "What is beta?">>
        /\ [k \in 1..Len(deck.flashcards) |-> deck.flashcards[k].back]
              = << <<"volatility">>, <<"drawdown">>, <<"For ", DisplayName>>, <<"pe">>,
                   <<"dividend yield">>, <<"market cap">>, <<"beta">> >>
        /\ calls = 2 => deck.flashcards = prevDeck.flashcards

\* C14 witness: an unseeded call for an advanced user over a record with
\* metrics and no company name, repeated with a differently ordered quiz,
\* returned the seven cards with the ticker as the display name.
C14_Witness ==
    /\ calls = 2
    /\ ~Seeded
    /\ call.user_level = Str("Advanced")
    /\ deck.quiz # prevDeck.quiz
    /\ Len(deck.flashcards) = 7
    /\ deck.flashcards[3].back = <<"For ", Str("AAPL")>>

\* C20 as stated: a value of market_cap, trailing_pe, dividend_yield or beta
\* that is not a number and does not parse as one is treated as absent: the
\* call completes and the bank holds no question for that field.
C20_UnparseableIsAbsent ==
    calls >= 1 =>
        \A f \in {"market_cap", "trailing_pe", "dividend_yield", "beta"} :
            (FieldValue(f).t = "str" /\ FloatOfStr(FieldValue(f).s) = None)
                => QuestionsOf(f) = {}

\* How many times x occurs in seq.
Count(x, seq) == Cardinality({k \in 1..Len(seq) : seq[k] = x})

\* C22: a call leaves the analysis record it was given unchanged, and for
\* every question built, the options list handed to _make_question is
\* unchanged after the call while the question's options are a permutation of
\* it (same length, same multiset of strings).
C22_InputsNotMutated ==
    calls >= 1 =>
        /\ argsAfter = call.analysis
        /\ \A i \in 1..Len(made) :
              /\ made[i].given = made[i].options
              /\ Len(bank[i].options) = Len(made[i].options)
              /\ \A x \in Range(made[i].options) \cup Range(bank[i].options) :
                    Count(x, bank[i].options) = Count(x, made[i].options)

\* C22 witness: a sector question whose four options (two of them equal)
\* came back in another order, the list given being as it was.
C22_Witness ==
    /\ calls >= 1
    /\ argsAfter = call.analysis
    /\ \E i \in 1..Len(made) :
          /\ made[i].question[1] = "sector"
          /\ Count(Str("Technology"), made[i].options) = 2
          /\ bank[i].options # made[i].options
          /\ made[i].given = made[i].options

\* The period return the record of the last call holds, read as stated: a
\* missing or unparseable value is 0.  nan is a float and stays nan.
ReturnRead ==
    LET v == FieldValue("period_return_pct")
    IN  CASE v.t = "none" -> Num(0)
          [] v.t = "str" -> IF FloatOfStr(v.s) = None THEN Num(0) ELSE FloatOfStr(v.s)
          [] OTHER -> v

\* C24 as stated: the correct option of the price-direction question is
\* "Increased in value" exactly when the period return is >= 0 (a missing or
\* unparseable return reading as 0) and "Decreased in value" exactly when it
\* is < 0; the other two options are never the correct one.
C24_DirectionBySign ==
    calls >= 1 =>
        \A i \in QuestionsOf("direction") :
            /\ CorrectText(bank[i]) = Str("Increased in value")
                  <=> (ReturnRead.t = "num" /\ ReturnRead.n >= 0)
            /\ CorrectText(bank[i]) = Str("Decreased in value")
                  <=> (ReturnRead.t = "num" /\ ReturnRead.n < 0)
            /\ CorrectText(bank[i]) \notin {Str("Stayed exactly the same"),
                                            Str("We do not know from the data")}

-----------------------------------------------------------------------------
(* Properties of stable_seed (checked under SpecSeed).                     *)

\* The normalized tuple: ticker trimmed and uppercased, the others trimmed.
Normalized(args) == <<Upper(Strip(args[1])), Strip(args[2]), Strip(args[3]), Strip(args[4])>>

\* A seed is an integer in 0 .. 2^32 - 1: two limbs of 16 bits.
IsUInt32(n) == n.t = "int" /\ n.hi \in 0..65535 /\ n.lo \in 0..65535

\* C5: the seed depends only on the normalized tuple: the key hashed is
\* ticker|period|interval|user_level of the normalized fields, two calls
\* whose arguments normalize to the same tuple return the same seed, and
\* every seed is in 0 .. 2^32 - 1.
C5_SeedOfNormalizedTuple ==
    /\ \A c \in 1..Len(seedCalls) :
          /\ IsUInt32(seedCalls[c].seed)
          /\ LET n == Normalized(seedCalls[c].args)
             IN  seedCalls[c].key =
                    n[1] \o <<"|">> \o n[2] \o <<"|">> \o n[3] \o <<"|">> \o n[4]
    /\ \A c, d \in 1..Len(seedCalls) :
          Normalized(seedCalls[c].args) = Normalized(seedCalls[d].args)
              => seedCalls[c].seed = seedCalls[d].seed

\* C5 witness: two calls whose tickers differ in case and whose other fields
\* differ in surrounding whitespace returned the same seed.
C5_Witness ==
    /\ Len(seedCalls) = 2
    /\ seedCalls[1].args[1] # seedCalls[2].args[1]
    /\ Upper(seedCalls[1].args[1]) = Upper(seedCalls[2].args[1])
    /\ seedCalls[1].args[1] # <<>>
    /\ \E f \in 2..4 : seedCalls[1].args[f] # seedCalls[2].args[f]
    /\ seedCalls[1].seed = seedCalls[2].seed

\* The fields in which two normalized tuples differ.
DifferingFields(a, b) == {f \in 1..4 : Normalized(a)[f] # Normalized(b)[f]}

\* b is a with the values of fields f and g exchanged.
IsSwap(a, b, f, g) ==
    /\ b[f] = a[g]
    /\ b[g] = a[f]
    /\ \A h \in (1..4) \ {f, g} : b[h] = a[h]

HasDelimiter(str) == \E k \in 1..Len(str) : str[k] = "|"

-----------------------------------------------------------------------------
(* Properties of the /analyze handlers (checked under SpecApi).            *)

\* C4 as stated: two identical requests served by the same handler over the
\* same analysis data carry the same quiz and the same flashcards.
C4_AnalyzeRepeatable ==
    \A c, d \in 1..Len(apiCalls) :
        (apiCalls[c].response.status = 200 /\ apiCalls[d].response.status = 200)
            => /\ apiCalls[c].response.quiz = apiCalls[d].response.quiz
               /\ apiCalls[c].response.flashcards = apiCalls[d].response.flashcards

\* The requests the routes.py handler served past its empty-ticker check.
RoutesStaged ==
    {c \in 1..Len(apiCalls) :
        apiCalls[c].handler = "routes" /\ Upper(Strip(apiCalls[c].request.ticker)) # <<>>}

\* C23 as stated: in the routes.py handler the stages run in the order
\* analysis, report, quiz; the request fails exactly when the analysis stage
\* does (404 for ValueError, 500 for another exception, no report or quiz
\* generated); a report exception gives the fallback markdown; a quiz
\* exception gives an empty quiz and no flashcards with quiz_error set, the
\* response still carrying the analysis and the report.
C23_StagesAndRecovery ==
    \A c \in RoutesStaged :
        LET u == apiCalls[c].upstream
            r == apiCalls[c].response
            stages == apiCalls[c].stages
        IN  CASE u.analysis = Str("ValueError") ->
                    r.status = 404 /\ stages = <<"analyze_ticker">>
              [] u.analysis = Str("Exception") ->
                    r.status = 500 /\ stages = <<"analyze_ticker">>
              [] OTHER ->
                    /\ r.status = 200
                    /\ stages = <<"analyze_ticker", "generate_learning_report",
                                  "stable_seed", "generate_quiz_and_flashcards">>
                    /\ r.analysis = u.analysis
                    /\ r.report_markdown = IF u.report = "raises" THEN "fallback" ELSE "report"
                    /\ u.quiz # None =>
                          /\ r.quiz = <<>>
                          /\ r.flashcards = <<>>
                          /\ "quiz_error" \in DOMAIN r

-----------------------------------------------------------------------------
(* Properties of analysis.py (checked under SpecAnalysis).                 *)

\* The Close series of the table given to compute_price_metrics.
CloseGiven == metricsCall.price_df.values["Close"]

MetricsReturned ==
    /\ metricsCall # None
    /\ metricsCall.outcome.t = "return"

\* C15 as stated: when the price table is usable and reading the company
\* info raises, analyze_ticker returns a record whose snapshot fields are
\* all absent; when the price step fails, analyze_ticker raises.
C15_FundamentalsFailureTolerated ==
    tickerCall # None =>
        LET priceOk == /\ ~IsEmpty(tickerCall.download)
                       /\ "Close" \in Range(tickerCall.download.columns)
        IN  /\ (priceOk /\ tickerCall.info.t = "raise") =>
                  /\ tickerCall.outcome.t = "return"
                  /\ \A f \in DOMAIN tickerCall.outcome.value.company \ {"ticker"} :
                        tickerCall.outcome.value.company[f] = None
            /\ ~priceOk => tickerCall.outcome.t = "raise"

\* C16: for a series of 2 or more prices the metrics returned satisfy
\* min_price <= start_price <= max_price, min_price <= last_price <= max_price
\* and max_drawdown_pct <= 0.
C16_MetricsOrdered ==
    (MetricsReturned /\ Len(CloseGiven) >= 2) =>
        LET m == metricsCall.outcome.value
        IN  /\ FracLE(m.min_price, m.start_price)
            /\ FracLE(m.start_price, m.max_price)
            /\ FracLE(m.min_price, m.last_price)
            /\ FracLE(m.last_price, m.max_price)
            /\ FracLE(m.max_drawdown_pct, Frac(0, 1))

\* C16 witness: a series that starts above its last price and below its
\* highest, with a negative drawdown.
C16_Witness ==
    /\ MetricsReturned
    /\ Len(CloseGiven) >= 3
    /\ LET m == metricsCall.outcome.value
       IN  /\ m.last_price.n < m.start_price.n
           /\ m.start_price.n < m.max_price.n
           /\ m.min_price.n < m.last_price.n
           /\ m.max_drawdown_pct.n < 0

\* The lowest of (close[i] - close[j]) / close[j] over j <= i.
DeepestFall(close) ==
    LET upTo == {<<i, j>> \in (1..Len(close)) \X (1..Len(close)) : j <= i}
        fs == {Frac(close[ij[1]] - close[ij[2]], close[ij[2]]) : ij \in upTo}
    IN  CHOOSE f \in fs : \A g \in fs : FracLE(f, g)

C18_ShortSeriesGiveZero ==
    MetricsReturned =>
        LET m == metricsCall.outcome.value
        IN  /\ Len(CloseGiven) = 1 =>
                  /\ m.daily_volatility_pct = Frac(0, 1)
                  /\ m.annualized_volatility_pct = Frac(0, 1)
                  /\ m.mean_daily_return_pct = Frac(0, 1)
            /\ Len(CloseGiven) = 2 => m.daily_volatility_pct = Frac(0, 1)

\* C19 as stated: a table with rows and the columns Open, High, Low makes
\* compute_price_metrics fail with a DataFormatError that lists the three
\* column names, and a table without rows makes analyze_ticker fail.
C19_MissingCloseIsDataFormatError ==
    /\ (/\ metricsCall # None
        /\ metricsCall.price_df.columns = <<"Open", "High", "Low">>
        /\ RowsOf(metricsCall.price_df) > 0)
          => /\ metricsCall.outcome.t = "raise"
             /\ metricsCall.outcome.type = "DataFormatError"
             /\ \A c \in {"Open", "High", "Low"} :
                   \E k \in 1..Len(metricsCall.outcome.message) :
                       metricsCall.outcome.message[k] = c
    /\ (tickerCall # None /\ RowsOf(tickerCall.download) = 0)
          => tickerCall.outcome.t = "raise"


-----------------------------------------------------------------------------
(* Properties of the Streamlit page (checked under SpecUi).                *)

\* The three values of session_state that hold the latest API result.
LatestResult(state) == [k \in ResultKeys |-> state[k]]

\* C25: a rerun of the script that does not follow a click on Analyze leaves
\* analysis_result, analyze_error and last_payload as they were, whatever
\* else it changes in session_state; and after a run that follows a click on
\* Analyze, an empty ticker or a failed API call has left analysis_result
\* None with an error message, and a successful call has stored the result
\* and cleared the error.
C25_LatestResultKept ==
    /\ [][(runs >= 1 /\ runs' = runs + 1 /\ ~lastRun'.run_button)
             => LatestResult(session_state') = LatestResult(session_state)]_vars
    /\ [](runs >= 1 /\ lastRun.run_button =>
             IF Upper(Strip(widgets.ticker)) = <<>>
             THEN /\ session_state["analysis_result"] = None
                  /\ session_state["analyze_error"] = Str("Please enter a ticker.")
             ELSE IF lastRun.server \in {Str("answers 404"), Str("times out")}
             THEN /\ session_state["analysis_result"] = None
                  /\ session_state["analyze_error"] # None
                  /\ session_state["analyze_error"].s[1] = "Error calling API: "
             ELSE /\ session_state["analysis_result"] # None
                  /\ session_state["analysis_result"].ticker = Upper(Strip(widgets.ticker))
                  /\ session_state["analyze_error"] = None)

\* C25 witness: with a result for AAPL on the page, the user ticked "Show
\* answer" and then typed another ticker without clicking Analyze; the
\* result, the cleared error and the payload for AAPL are still there.
C25_Witness ==
    /\ runs >= 1
    /\ ~lastRun.run_button
    /\ Upper(Strip(widgets.ticker)) = <<"M", "S", "F", "T">>
    /\ "quiz_show_0" \in DOMAIN session_state
    /\ session_state["quiz_show_0"]
    /\ session_state["analysis_result"] # None
    /\ session_state["analysis_result"].ticker = <<"A", "A", "P", "L">>
    /\ session_state["analyze_error"] = None
    /\ session_state["last_payload"] # None
    /\ session_state["last_payload"].ticker = <<"A", "A", "P", "L">>


-----------------------------------------------------------------------------
(* Properties of concurrent calls (checked under SpecConc).                *)

\* The deck the call of caller c returns when it runs alone.
DeckAlone(c) ==
    GenerateQuizAndFlashcards(frames[c].args.ticker, frames[c].args.analysis,
                              frames[c].args.user_level, frames[c].args.num_questions,
                              frames[c].args.seed, 0).deck

\* C21: a seeded call returns, under every interleaving with another call,
\* the deck it returns when it runs alone.
C21_NoInterference ==
    \A c \in Callers :
        (frames[c].pc = "done" /\ frames[c].args.seed # None)
            => frames[c].deck = DeckAlone(c)

\* C21 witness: two calls with different seeds and tickers, each overlapped
\* by steps of the other, both returned the deck of the call run alone.
C21_Witness ==
    /\ \A c \in Callers :
          /\ frames[c].pc = "done"
          /\ frames[c].overlapped
          /\ frames[c].args.seed # None
          /\ frames[c].deck = DeckAlone(c)
    /\ frames["a"].args.seed # frames["b"].args.seed
    /\ frames["a"].args.ticker # frames["b"].args.ticker

=============================================================================
